---- MODULE Spec2Model ----
(***************************************************************************)
(* A model of the dwitch daemon (one node): the VRF control plane of       *)
(* dwitch/src/socket/server.rs, the outbound peer sessions of              *)
(* dwitch/src/socket/client.rs and the TAP workers of dwitch/src/tap.rs.   *)
(***************************************************************************)
EXTENDS Integers, Sequences, FiniteSets, TLC

\* ------------------------------------------------------------------ bounds
MaxVrfId == 2
MaxName == 2
MaxSwitchId == 2
MaxMembers == 2
\* The channels of the source hold 32 packets; the model scales them down.
QueueCapacity == 2
MaxListVrfs == 23

\* ------------------------------------------------------- program constants
CONFIGURATION_SWITCH_ID == 0
\* config.switch_id of the modelled daemon; main refuses to start with 0.
LocalId == 1
\* chunks(10) of the List reply
ChunkSize == 10

VrfIds == 1..MaxVrfId
Names == 1..MaxName
SwitchIds == 0..MaxSwitchId

\* ------------------------------------------------------------ data helpers
SeqsUpTo(S, n) == UNION {[1..k -> S] : k \in 0..n}

Range(f) == {f[x] : x \in DOMAIN f}

\* Vec::contains
Contains(seq, x) == \E i \in 1..Len(seq) : seq[i] = x

\* Vec::retain(|member| *member != x)
Retain(seq, x) == SelectSeq(seq, LAMBDA m : m # x)

\* HashMap::insert
Insert(f, k, v) == [x \in (DOMAIN f) \cup {k} |-> IF x = k THEN v ELSE f[x]]

\* HashMap::remove
Remove(f, k) == [x \in (DOMAIN f) \ {k} |-> f[x]]

EmptyMap == [x \in {} |-> 0]

\* protocol::Vrf
Vrf(id, name, members) == [id |-> id, name |-> name, members |-> members]

\* protocol::VrfAction, as a record with the fields of all the variants
ActList == [type |-> "List", id |-> 0, name |-> 0, members |-> <<>>]
ActCreate(vrf) == [type |-> "Create", id |-> vrf.id, name |-> vrf.name, members |-> vrf.members]
ActDelete(id) == [type |-> "Delete", id |-> id, name |-> 0, members |-> <<>>]
ActAddMember(id, members) == [type |-> "AddMember", id |-> id, name |-> 0, members |-> members]
ActRemoveMember(id, members) == [type |-> "RemoveMember", id |-> id, name |-> 0, members |-> members]

\* The variants process_vrf_action rebroadcasts for the operator.
IsMutating(a) == a.type \in {"Create", "Delete", "AddMember", "RemoveMember"}

\* protocol::Packet, as a record with the fields of all the variants
NoAct == [type |-> "None", id |-> 0, name |-> 0, members |-> <<>>]
NoFrame == [dst |-> "none", src |-> "none", len |-> 0]
PingPacket == [kind |-> "Ping", act |-> NoAct, vrf_id |-> 0, data |-> NoFrame]
VrfActionPacket(a) == [kind |-> "VrfAction", act |-> a, vrf_id |-> 0, data |-> NoFrame]
DataPacket(v, f) == [kind |-> "Data", act |-> NoAct, vrf_id |-> v, data |-> f]

\* Ethernet frames, by their destination MAC, source MAC and length in bytes
Macs == {"m1", "m2"}
Frames == {[dst |-> "m1", src |-> "m2", len |-> 14], [dst |-> "m2", src |-> "m1", len |-> 14]}

\* inbound connections the server can hold, and config.servers
Sessions == {"s1", "s2"}
Addrs == {"a1", "a2"}

\* ------------------------------------------------------------------- state
VARIABLES
    vrf_table,     \* VrfTable: vrf id -> Vrf
    tap_table,     \* TapTable: vrf id -> the worker whose ingress Sender is stored
    switch_table,  \* learning table: vrf id -> (mac -> switch id)
    workers,       \* spawned tap_connection tasks: worker -> [vrf, q, open, rx]
    reply,         \* the chunks the last List request wrote to its stream
    sess,          \* server_connection tasks: session -> [pc, hs, act, todo, item, why]
    client_table,  \* ClientTable: switch id -> the address whose Sender is stored
    cl,            \* client tasks: address -> [pc, peer, eof]
    queue,         \* the channel of each client task
    hb,            \* heartbeat tasks spawned for each address and still running
    up,            \* whether the remote side of each address answers
    remote,        \* the VRF table of the node behind each address
    disk,          \* the cache file: "missing", "corrupt" or the Cache last saved
    lk,            \* tasks seen at the grain of their lock acquisitions: task -> [pc, act]
    netns,         \* /run/netns: namespace name -> "file" (marker only) or "mounted"
    taps,          \* Tap values not yet gone, as records [w, name, stage]
    out            \* what the last call of Netns::create did and returned

tables == <<vrf_table, tap_table, switch_table, workers>>
conn == <<client_table, cl, queue, hb, up, remote>>
\* The parts below are in view in the specifications made for them (boot,
\* locks, namespaces); the other specifications leave them as they start.
aux == <<disk, lk, netns, taps, out>>
vars == <<vrf_table, tap_table, switch_table, workers, reply, sess, client_table, cl, queue, hb, up,
          remote, disk, lk, netns, taps, out>>

\* The shared tables as one value, for the handlers below.
Tables == [vrf |-> vrf_table, tap |-> tap_table, sw |-> switch_table, workers |-> workers]

\* ------------------------------------------------------------- TAP workers
\* channel(32) in tap(): a Sender/Receiver pair distinct from every live one.
\* A worker is named by its VRF id and the first generation number not in use.
FreshWorker(T, id) ==
    LET used == (DOMAIN T.workers) \cup Range(T.tap)
    IN  CHOOSE w \in {id} \X (0..Cardinality(used)) :
            w \notin used /\ \A g \in 0..(w[2] - 1) : <<id, g>> \in used

\* Dropping the Sender held by the TAP table: the worker's recv() yields None
\* once its queue is drained, and the task ends. A worker whose receive loop
\* has panicked (rx = FALSE) never calls receiver_task.abort(): its egress
\* task stays.
DropSender(ws, w) ==
    IF w \notin DOMAIN ws THEN ws
    ELSE IF ws[w].q = <<>> /\ ws[w].rx THEN Remove(ws, w)
    ELSE [ws EXCEPT ![w].open = FALSE]

\* tap_table.remove(&id)
TapRemove(T, id) ==
    IF id \in DOMAIN T.tap
    THEN [T EXCEPT !.tap = Remove(T.tap, id),
                   !.workers = DropSender(T.workers, T.tap[id])]
    ELSE T

\* tap_table.insert(vrf.id, tap(vrf.clone(), ..)): tap() makes the channel,
\* spawns tap_connection when setup_tap succeeds (ok) and returns the Sender
\* in both cases; insert drops the Sender stored before.
TapInsert(T, vrf, ok) ==
    LET w == FreshWorker(T, vrf.id)
        spawned == IF ok
                   THEN Insert(T.workers, w, [vrf |-> vrf, q |-> <<>>, open |-> TRUE, rx |-> TRUE])
                   ELSE T.workers
        old == IF vrf.id \in DOMAIN T.tap THEN DropSender(spawned, T.tap[vrf.id])
               ELSE spawned
    IN  [T EXCEPT !.tap = Insert(T.tap, vrf.id, w), !.workers = old]

\* ------------------------------------------------- control-plane handlers
\* ApplyCreate without the comparison of names.
ApplyCreateAnyName(T, vrf, ok) ==
    IF vrf.id \notin DOMAIN T.vrf
    THEN LET T1 == IF Contains(vrf.members, LocalId) THEN TapInsert(T, vrf, ok) ELSE T
         IN  [T1 EXCEPT !.vrf = Insert(T1.vrf, vrf.id, vrf)]
    ELSE T

\* VrfAction::Create
ApplyCreate(T, vrf, ok) ==
    IF vrf.id \notin DOMAIN T.vrf
       /\ ~\E k \in DOMAIN T.vrf : T.vrf[k].name = vrf.name
    THEN LET T1 == IF Contains(vrf.members, LocalId) THEN TapInsert(T, vrf, ok) ELSE T
         IN  [T1 EXCEPT !.vrf = Insert(T1.vrf, vrf.id, vrf)]
    ELSE T

\* VrfAction::Delete
ApplyDelete(T, id) ==
    LET T1 == TapRemove(T, id)
    IN  [T1 EXCEPT !.vrf = Remove(T1.vrf, id), !.sw = Remove(T1.sw, id)]

\* One turn of the loop of VrfAction::AddMember.
AddOne(T, id, m, ok) ==
    LET T1 == IF m = LocalId THEN TapInsert(T, T.vrf[id], ok) ELSE T
    IN  IF ~Contains(T1.vrf[id].members, m)
        THEN [T1 EXCEPT !.vrf[id].members = Append(@, m)]
        ELSE T1

RECURSIVE AddLoop(_, _, _, _)
AddLoop(T, id, members, ok) ==
    IF members = <<>> THEN T
    ELSE AddLoop(AddOne(T, id, Head(members), ok), id, Tail(members), ok)

\* VrfAction::AddMember
ApplyAddMember(T, id, members, ok) ==
    IF id \in DOMAIN T.vrf THEN AddLoop(T, id, members, ok) ELSE T

\* RemoveOne with the TAP worker of the local node left in place.
RemoveOneKeepsTap(T, id, m) ==
    [T EXCEPT !.vrf[id].members = Retain(@, m)]

\* One turn of the loop of VrfAction::RemoveMember.
RemoveOne(T, id, m) ==
    LET T1 == IF m = LocalId THEN TapRemove(T, id) ELSE T
    IN  [T1 EXCEPT !.vrf[id].members = Retain(@, m)]

RECURSIVE RemoveLoop(_, _, _)
RemoveLoop(T, id, members) ==
    IF members = <<>> THEN T
    ELSE RemoveLoop(RemoveOne(T, id, Head(members)), id, Tail(members))

\* VrfAction::RemoveMember
ApplyRemoveMember(T, id, members) ==
    IF id \in DOMAIN T.vrf THEN RemoveLoop(T, id, members) ELSE T

\* The match of process_vrf_action on the tables (List changes none).
Apply(T, a, ok) ==
    CASE a.type = "Create" -> ApplyCreate(T, Vrf(a.id, a.name, a.members), ok)
      [] a.type = "Delete" -> ApplyDelete(T, a.id)
      [] a.type = "AddMember" -> ApplyAddMember(T, a.id, a.members, ok)
      [] a.type = "RemoveMember" -> ApplyRemoveMember(T, a.id, a.members)
      [] OTHER -> T

SetTables(T) ==
    /\ vrf_table' = T.vrf
    /\ tap_table' = T.tap
    /\ switch_table' = T.sw
    /\ workers' = T.workers


\* --------------------------------------------------------------- List reply
Min(a, b) == IF a < b THEN a ELSE b

RECURSIVE Ascending(_)
Ascending(S) ==
    IF S = {} THEN <<>>
    ELSE LET m == CHOOSE x \in S : \A y \in S : x <= y
         IN  <<m>> \o Ascending(S \ {m})

Rotate(seq, k) == [i \in 1..Len(seq) |-> seq[((i + k - 1) % Len(seq)) + 1]]

Reverse(seq) == [i \in 1..Len(seq) |-> seq[Len(seq) + 1 - i]]

\* Orders in which HashMap::values() may yield the table: the rotations of
\* the ascending order and of the descending order.
IterOrders(S) ==
    IF S = {} THEN {<<>>}
    ELSE LET asc == Ascending(S)
         IN  {Rotate(asc, k) : k \in 0..(Len(asc) - 1)}
                 \cup {Rotate(Reverse(asc), k) : k \in 0..(Len(asc) - 1)}

\* slice::chunks(10)
RECURSIVE Chunks(_)
Chunks(seq) ==
    IF seq = <<>> THEN <<>>
    ELSE LET n == Min(ChunkSize, Len(seq))
         IN  <<SubSeq(seq, 1, n)>> \o Chunks(SubSeq(seq, n + 1, Len(seq)))

\* ListReply with a remainder shorter than ChunkSize left out.
ListReplyFullChunks(vt, order) ==
    LET n == (Len(order) \div ChunkSize) * ChunkSize
    IN  Chunks([i \in 1..n |-> vt[order[i]]]) \o << <<>> >>

\* VrfAction::List: one List(Some(chunk)) per chunk of the values, then
\* List(Some(Vec::new())).
ListReply(vt, order) ==
    Chunks([i \in 1..Len(order) |-> vt[order[i]]]) \o << <<>> >>

\* ------------------------------------------------------- inbound sessions
ClosedSession ==
    [pc |-> "closed", hs |-> 0, act |-> NoAct, todo |-> {}, item |-> DataPacket(0, NoFrame),
     why |-> "none"]
IdleSession(id) == [ClosedSession EXCEPT !.pc = "idle", !.hs = id]

\* Tasks that hold the read lock of the peer registry (broadcast_packet).
RegistryReaders == {s \in Sessions : sess[s].pc = "bcast"}

\* A client task waits in client_table.write(): the lock is fair, so later
\* readers queue behind it.
RegistryWriterWaits == \E a \in Addrs : cl[a].pc = "register"

\* Sessions that hold the read lock of the TAP table (blocked in tap.send).
TapReaders == {s \in Sessions : sess[s].pc = "data"}

\* Whether the handler takes tap_table.write() for this action.
NeedsTapWrite(T, a) ==
    CASE a.type = "Create" ->
            /\ a.id \notin DOMAIN T.vrf
            /\ ~\E k \in DOMAIN T.vrf : T.vrf[k].name = a.name
            /\ Contains(a.members, LocalId)
      [] a.type = "Delete" -> TRUE
      [] a.type \in {"AddMember", "RemoveMember"} ->
            a.id \in DOMAIN T.vrf /\ Contains(a.members, LocalId)
      [] OTHER -> FALSE

\* server(): accept, exchange_switch_id, spawn server_connection.
Accept(s, id) ==
    /\ sess[s].pc = "closed"
    /\ sess' = [sess EXCEPT ![s] = IdleSession(id)]
    /\ UNCHANGED <<tables, reply, conn, aux>>

\* server(): listener.accept() returned a stream, exchange_switch_id runs.
TcpAccept(s) ==
    /\ sess[s].pc = "closed"
    /\ sess' = [sess EXCEPT ![s].pc = "handshake"]
    /\ UNCHANGED <<tables, reply, conn, aux>>

\* exchange_switch_id returns Some(id): server_connection is spawned.
HandshakeOk(s, id) ==
    /\ sess[s].pc = "handshake"
    /\ sess' = [sess EXCEPT ![s] = IdleSession(id)]
    /\ UNCHANGED <<tables, reply, conn, aux>>

\* exchange_switch_id returns None (write error, read error, zero bytes or
\* bytes that do not decode): `continue`, the stream is dropped.
HandshakeFail(s) ==
    /\ sess[s].pc = "handshake"
    /\ sess' = [sess EXCEPT ![s] = ClosedSession]
    /\ UNCHANGED <<tables, reply, conn, aux>>

\* recv_packet returns None in server_connection, because of EOF ("eof") or
\* of bytes that do not decode ("decode"): the pattern Some(packet) does not
\* match, select! disables the branch and waits for sleep(PING_TIMEOUT) only.
RecvNone(s, why) ==
    /\ sess[s].pc = "idle"
    /\ sess' = [sess EXCEPT ![s].pc = "expiring", ![s].why = why]
    /\ UNCHANGED <<tables, reply, conn, aux>>

\* sleep(PING_TIMEOUT) completes after recv_packet returned None: break.
SessionExpire(s) ==
    /\ sess[s].pc = "expiring"
    /\ sess' = [sess EXCEPT ![s] = ClosedSession]
    /\ UNCHANGED <<tables, reply, conn, aux>>

\* server_connection leaves its loop: no packet within PING_TIMEOUT.
SessionClose(s) ==
    /\ sess[s].pc = "idle"
    /\ sess' = [sess EXCEPT ![s] = ClosedSession]
    /\ UNCHANGED <<tables, reply, conn, aux>>

\* Whether process_vrf_action rebroadcasts action a of a session with
\* handshake id hs.
Rebroadcasts(hs, a) == hs = CONFIGURATION_SWITCH_ID /\ IsMutating(a)

\* The match of process_vrf_action: the tables and the List reply.
Process(a, ok, order) ==
    /\ NeedsTapWrite(Tables, a) => TapReaders = {}
    /\ SetTables(Apply(Tables, a, ok))
    /\ reply' = IF a.type = "List" THEN ListReply(vrf_table, order) ELSE reply

\* RecvVrfAction with the match run before broadcast_packet.
RecvVrfActionApplyFirst(s, a, ok, order) ==
    /\ sess[s].pc = "idle"
    /\ Process(a, ok, order)
    /\ IF Rebroadcasts(sess[s].hs, a)
       THEN /\ ~RegistryWriterWaits
            /\ sess' = [sess EXCEPT ![s].pc = "bcast", ![s].act = a,
                                    ![s].todo = DOMAIN client_table]
       ELSE UNCHANGED sess
    /\ UNCHANGED <<conn, aux>>

\* server_connection reads a VrfAction packet and calls process_vrf_action:
\* either it starts broadcast_packet (registry read lock taken, entries to
\* visit) or it goes to the match at once.
RecvVrfAction(s, a, ok, order) ==
    /\ sess[s].pc = "idle"
    /\ IF Rebroadcasts(sess[s].hs, a)
       THEN /\ ~RegistryWriterWaits
            /\ sess' = [sess EXCEPT ![s].pc = "bcast", ![s].act = a,
                                    ![s].todo = DOMAIN client_table]
            /\ UNCHANGED <<tables, reply>>
       ELSE /\ Process(a, ok, order)
            /\ UNCHANGED sess
    /\ UNCHANGED <<conn, aux>>

\* One turn of the loop of broadcast_packet: client.send(packet).await, which
\* waits while the channel is full.
BroadcastSend(s, k) ==
    /\ sess[s].pc = "bcast"
    /\ k \in sess[s].todo
    /\ Len(queue[client_table[k]]) < QueueCapacity
    /\ queue' = [queue EXCEPT ![client_table[k]] = Append(@, VrfActionPacket(sess[s].act))]
    /\ sess' = [sess EXCEPT ![s].todo = @ \ {k}]
    /\ UNCHANGED <<tables, reply, client_table, cl, hb, up, remote, aux>>

\* broadcast_packet returns (read lock released) and the match runs.
BroadcastDone(s, ok, order) ==
    /\ sess[s].pc = "bcast"
    /\ sess[s].todo = {}
    /\ Process(sess[s].act, ok, order)
    /\ sess' = [sess EXCEPT ![s].pc = "idle", ![s].act = NoAct]
    /\ UNCHANGED <<conn, aux>>

\* Packet::Data in server_connection: under the TAP table's read lock,
\* tap.send((client_switch_id, data)).await; a closed channel is an error
\* that is logged, a full one makes the task wait.
RecvData(s, v, f) ==
    /\ sess[s].pc = "idle"
    /\ IF v \in DOMAIN tap_table /\ tap_table[v] \in DOMAIN workers /\ workers[tap_table[v]].rx
       THEN IF Len(workers[tap_table[v]].q) < QueueCapacity
            THEN /\ workers' = [workers EXCEPT ![tap_table[v]].q = Append(@, <<sess[s].hs, f>>)]
                 /\ UNCHANGED sess
            ELSE /\ sess' = [sess EXCEPT ![s].pc = "data", ![s].item = DataPacket(v, f)]
                 /\ UNCHANGED workers
       ELSE UNCHANGED <<sess, workers>>
    /\ UNCHANGED <<vrf_table, tap_table, switch_table, reply, conn, aux>>

\* The waiting tap.send completes once the worker has taken a frame, or
\* fails once the worker's Receiver is gone.
DataSend(s) ==
    /\ sess[s].pc = "data"
    /\ LET w == tap_table[sess[s].item.vrf_id]
       IN  /\ Len(workers[w].q) < QueueCapacity
           /\ workers' = IF workers[w].rx
                         THEN [workers EXCEPT ![w].q =
                                   Append(@, <<sess[s].hs, sess[s].item.data>>)]
                         ELSE workers
    /\ sess' = [sess EXCEPT ![s].pc = "idle", ![s].item = ClosedSession.item]
    /\ UNCHANGED <<vrf_table, tap_table, switch_table, reply, conn, aux>>

\* Learn that binds a MAC only when the VRF has no binding for it yet.
LearnFirstOnly(st, id, mac, origin) ==
    LET learned == IF id \in DOMAIN st THEN st[id] ELSE EmptyMap
    IN  IF mac \in DOMAIN learned THEN st
        ELSE Insert(st, id, Insert(learned, mac, origin))

\* switch_table.entry(vrf.id).or_default().insert(source_mac, switch_id)
Learn(st, id, mac, origin) ==
    LET learned == IF id \in DOMAIN st THEN st[id] ELSE EmptyMap
    IN  Insert(st, id, Insert(learned, mac, origin))

\* The bytes get_source_mac slices: buffer[6..12].
MinSourceLen == 12

\* One turn of the receive loop of tap_connection: learn the source MAC of
\* the frame for its origin and write the frame to the TAP; when the Sender
\* is gone and the queue is empty the task ends. On data shorter than 12
\* bytes get_source_mac panics: the task dies there, its Receiver is dropped
\* with what it holds, and the egress task is left running.
WorkerIngress(w) ==
    /\ w \in DOMAIN workers
    /\ workers[w].rx
    /\ workers[w].q # <<>>
    /\ LET origin == Head(workers[w].q)[1]
           f == Head(workers[w].q)[2]
           id == workers[w].vrf.id
       IN  IF f.len < MinSourceLen
           THEN /\ workers' = [workers EXCEPT ![w].rx = FALSE, ![w].q = <<>>]
                /\ UNCHANGED switch_table
           ELSE /\ switch_table' = Learn(switch_table, id, f.src, origin)
                /\ workers' = IF Len(workers[w].q) = 1 /\ ~workers[w].open
                              THEN Remove(workers, w)
                              ELSE [workers EXCEPT ![w].q = Tail(@)]
    /\ UNCHANGED <<vrf_table, tap_table, reply, sess, conn, aux>>

\* The shortest frame the egress task forwards (Ethernet header).
MinFrameLen == 14

\* broadcast_to_vrf: the queues of the registered members, one send for each
\* member of the list, in the order of the list.
RECURSIVE FloodSends(_)
FloodSends(members) ==
    IF members = <<>> THEN <<>>
    ELSE (IF Head(members) \in DOMAIN client_table
          THEN <<client_table[Head(members)]>> ELSE <<>>) \o FloodSends(Tail(members))

\* The egress task of a worker spawned with `vrf`, for frame f read from the
\* TAP: the queues it sends Data{vrf.id, f} to, in the order of the sends.
EgressSends(vrf, f) ==
    IF f.len < MinFrameLen THEN <<>>
    ELSE IF vrf.id \in DOMAIN switch_table /\ f.dst \in DOMAIN switch_table[vrf.id]
         THEN LET switch_id == switch_table[vrf.id][f.dst]
              IN  IF switch_id \in DOMAIN client_table
                  THEN <<client_table[switch_id]>> ELSE <<>>
         ELSE FloodSends(vrf.members)

RECURSIVE Enqueue(_, _, _)
Enqueue(qs, addrs, packet) ==
    IF addrs = <<>> THEN qs
    ELSE Enqueue([qs EXCEPT ![Head(addrs)] = Append(@, packet)], Tail(addrs), packet)

\* One turn of the egress loop of tap_connection: tap.recv, then the sends
\* under the read lock of the peer registry. Each send waits while its
\* channel is full; the turn is taken when every send can complete.
TapEgress(w, f) ==
    /\ w \in DOMAIN workers
    /\ f.len >= MinFrameLen => ~RegistryWriterWaits
    /\ LET vrf == workers[w].vrf
           sent == Enqueue(queue, EgressSends(vrf, f), DataPacket(vrf.id, f))
       IN  /\ \A a \in Addrs : Len(sent[a]) <= QueueCapacity
           /\ queue' = sent
    /\ UNCHANGED <<tables, reply, sess, client_table, cl, hb, up, remote, aux>>

\* ------------------------------------------------------ outbound sessions
\* TcpStream::connect and exchange_switch_id succeed: the remote side
\* reports switch id `id`.
ClientConnect(a, id) ==
    /\ cl[a].pc = "connect"
    /\ up[a]
    /\ cl' = [cl EXCEPT ![a] = [pc |-> "register", peer |-> id, eof |-> FALSE]]
    /\ UNCHANGED <<tables, reply, sess, client_table, queue, hb, up, remote, aux>>

\* TcpStream::connect succeeds: exchange_switch_id runs on the new stream.
TcpConnect(a) ==
    /\ cl[a].pc = "connect"
    /\ up[a]
    /\ cl' = [cl EXCEPT ![a].pc = "exchange", ![a].eof = FALSE]
    /\ UNCHANGED <<tables, reply, sess, client_table, queue, hb, up, remote, aux>>

\* exchange_switch_id returns Some(id).
ExchangeOk(a, id) ==
    /\ cl[a].pc = "exchange"
    /\ up[a]
    /\ cl' = [cl EXCEPT ![a].pc = "register", ![a].peer = id]
    /\ UNCHANGED <<tables, reply, sess, client_table, queue, hb, up, remote, aux>>

\* ExchangeFail that registers the sender all the same.
ExchangeFailRegisters(a, why) ==
    /\ cl[a].pc = "exchange"
    /\ cl' = [cl EXCEPT ![a].pc = "connect", ![a].eof = (why = "eof")]
    /\ client_table' = Insert(client_table, cl[a].peer, a)
    /\ UNCHANGED <<tables, reply, sess, queue, hb, up, remote, aux>>

\* exchange_switch_id returns None, the peer having closed ("eof") or sent
\* bytes that do not decode ("decode"): `continue`, back to connect.
ExchangeFail(a, why) ==
    /\ cl[a].pc = "exchange"
    /\ cl' = [cl EXCEPT ![a].pc = "connect", ![a].eof = (why = "eof")]
    /\ UNCHANGED <<tables, reply, sess, client_table, queue, hb, up, remote, aux>>

\* select! branch stream.recv_packet() of the client: None (EOF, or bytes
\* that do not decode) does not match Some(Packet::Ping(Ping)); the branch is
\* disabled for this turn and the loop goes on with the other branches.
ClientRecvNone(a, why) ==
    /\ cl[a].pc = "mux"
    /\ why = "eof" => ~up[a]
    /\ cl' = [cl EXCEPT ![a].eof = @ \/ (why = "eof")]
    /\ UNCHANGED <<tables, reply, sess, client_table, queue, hb, up, remote, aux>>

\* Heartbeat tasks counted for one address; tasks beyond this are not told apart.
MaxHeartbeats == 2

\* client_table.write().await, insert(switch_id, sender.clone()), spawn of
\* the heartbeat task, first ping deadline.
ClientRegister(a) ==
    /\ cl[a].pc = "register"
    /\ RegistryReaders = {}
    /\ client_table' = Insert(client_table, cl[a].peer, a)
    /\ hb' = [hb EXCEPT ![a] = Min(@ + 1, MaxHeartbeats)]
    /\ cl' = [cl EXCEPT ![a].pc = "mux"]
    /\ UNCHANGED <<tables, reply, sess, queue, up, remote, aux>>

\* select! branch receiver.recv(): the packet is written to the socket
\* (send_packet only logs a write error).
ClientDrain(a) ==
    /\ cl[a].pc = "mux"
    /\ queue[a] # <<>>
    /\ queue' = [queue EXCEPT ![a] = Tail(@)]
    /\ UNCHANGED <<tables, reply, sess, client_table, cl, hb, up, remote, aux>>

\* process_vrf_action on the node behind an address, for an action that
\* arrives there on the session of this node (handshake id LocalId, so no
\* rebroadcast): the VRF table it leaves.
RemoteApply(vt, a) ==
    Apply([vrf |-> vt, tap |-> EmptyMap, sw |-> EmptyMap, workers |-> EmptyMap], a, FALSE).vrf

\* ClientDrain with the receiving node in view: a VrfAction written to a live
\* socket is read and applied by the node behind the address.
ClientDeliver(a) ==
    /\ cl[a].pc = "mux"
    /\ queue[a] # <<>>
    /\ queue' = [queue EXCEPT ![a] = Tail(@)]
    /\ remote' = IF up[a] /\ Head(queue[a]).kind = "VrfAction"
                 THEN [remote EXCEPT ![a] = RemoteApply(@, Head(queue[a]).act)]
                 ELSE remote
    /\ UNCHANGED <<tables, reply, sess, client_table, cl, hb, up, aux>>

\* select! branch sleep_until(ping_timeout): no Ping arrived for
\* PING_TIMEOUT; the task breaks to the outer loop and connects again.
ClientTimeout(a) ==
    /\ cl[a].pc = "mux"
    /\ ~up[a]
    /\ cl' = [cl EXCEPT ![a].pc = "connect"]
    /\ UNCHANGED <<tables, reply, sess, client_table, queue, hb, up, remote, aux>>

\* The heartbeat task: sender.send(Packet::Ping(Ping)).await every
\* PING_INTERVAL; it waits while the channel is full.
Heartbeat(a) ==
    /\ hb[a] > 0
    /\ Len(queue[a]) < QueueCapacity
    /\ queue' = [queue EXCEPT ![a] = Append(@, PingPacket)]
    /\ UNCHANGED <<tables, reply, sess, client_table, cl, hb, up, remote, aux>>

\* The remote side closes its socket or stops answering / listens again.
PeerDown(a) ==
    /\ up[a]
    /\ up' = [up EXCEPT ![a] = FALSE]
    /\ UNCHANGED <<tables, reply, sess, client_table, cl, queue, hb, remote, aux>>

PeerUp(a) ==
    /\ ~up[a]
    /\ up' = [up EXCEPT ![a] = TRUE]
    /\ UNCHANGED <<tables, reply, sess, client_table, cl, queue, hb, remote, aux>>


\* ---------------------------------------------------------- specifications
\* Switch ids a remote side reports in the handshake.
RemoteIds == SwitchIds \ {LocalId}

\* Cache::load(): the tables a former run saved, or Cache::default().
EmptyCache == [vrf_table |-> EmptyMap, switch_table |-> EmptyMap]
SavedCache ==
    [vrf_table |-> [v \in {1} |-> Vrf(1, 1, <<LocalId, 2>>)],
     switch_table |-> [v \in {1} |-> [m \in {"m2"} |-> 2]]]
Caches == {EmptyCache, SavedCache}

\* InitiateTaps that starts no worker.
InitiateTapsNone(T, ids, ok) == T

\* initiate_tap_table: a worker for every cached VRF the local id is a member of.
RECURSIVE InitiateTaps(_, _, _)
InitiateTaps(T, ids, ok) ==
    IF ids = <<>> THEN T
    ELSE LET vrf == T.vrf[Head(ids)]
             T1 == IF Contains(vrf.members, LocalId) THEN TapInsert(T, vrf, ok) ELSE T
         IN  InitiateTaps(T1, Tail(ids), ok)

\* main(): the shared tables built from the cache.
Boot(cache, ok) ==
    InitiateTaps([vrf |-> cache.vrf_table, tap |-> EmptyMap,
                  sw |-> cache.switch_table, workers |-> EmptyMap],
                 Ascending(DOMAIN cache.vrf_table), ok)

InitTables(T) ==
    /\ vrf_table = T.vrf
    /\ tap_table = T.tap
    /\ switch_table = T.sw
    /\ workers = T.workers

\* main(): no peer connected yet, every client task about to connect.
InitConn ==
    /\ reply = <<>>
    /\ client_table = EmptyMap
    /\ cl = [a \in Addrs |-> [pc |-> "connect", peer |-> 0, eof |-> FALSE]]
    /\ queue = [a \in Addrs |-> <<>>]
    /\ hb = [a \in Addrs |-> 0]
    /\ up = [a \in Addrs |-> TRUE]
    /\ remote = [a \in Addrs |-> EmptyMap]

\* The cache file: written by Cache::save, absent before the first save,
\* and undecodable when a write was cut short.
SavedFile(cache) == [file |-> "saved", data |-> cache]
MissingFile == [file |-> "missing", data |-> EmptyCache]
CorruptFile == [file |-> "corrupt", data |-> EmptyCache]

\* Tasks that take the locks of the shared tables: the session that handles
\* commands, the session that handles Data, the ingress loop of the TAP
\* worker and the cache-flush loop of main.
LockTasks == {"ctl", "data", "ingress", "flush"}
IdleTask ==
    [pc |-> "idle", act |-> NoAct, item |-> DataPacket(0, NoFrame), from |-> 0,
     w |-> <<0, 0>>, cache |-> EmptyCache]

\* No Netns::create has run yet. `tick` alternates from call to call, `fail`
\* is the step of the call that failed, `existed` whether the namespace was
\* there before and `ok` whether the call returned Ok.
NoOutcome == [tick |-> 0, name |-> 0, fail |-> "none", existed |-> FALSE, ok |-> TRUE]

\* Tap(AsyncTap, Netns) of every running worker, and the namespace it made.
OpenTaps(ws) == {[w |-> w, name |-> ws[w].vrf.name, stage |-> "open"] : w \in DOMAIN ws}
MountedFor(ws) == [n \in {ws[w].vrf.name : w \in DOMAIN ws} |-> "mounted"]

\* main() after the tables are built: the cache file is the one they were
\* loaded from, every worker has its TAP and its namespace.
InitAux ==
    /\ disk = SavedFile([vrf_table |-> vrf_table, switch_table |-> switch_table])
    /\ lk = [t \in LockTasks |-> IdleTask]
    /\ netns = MountedFor(workers)
    /\ taps = OpenTaps(workers)
    /\ out = NoOutcome

Init ==
    /\ \E cache \in Caches : InitTables(Boot(cache, TRUE))
    /\ sess = [s \in Sessions |-> ClosedSession]
    /\ InitConn
    /\ InitAux

\* The control-plane commands of the connection-layer specification.
SpecActions ==
    {ActList, ActCreate(Vrf(1, 1, <<LocalId, 2>>)), ActDelete(1)}

\* The inbound connection and the unreliable remote side of that specification.
SpecSessions == {"s1"}
FlakyAddrs == {"a1"}

Next ==
    \/ \E s \in SpecSessions, id \in RemoteIds : Accept(s, id)
    \/ \E s \in SpecSessions : SessionClose(s)
    \/ \E s \in SpecSessions, a \in SpecActions, ok \in {TRUE} :
           \E order \in IterOrders(DOMAIN vrf_table) : RecvVrfAction(s, a, ok, order)
    \/ \E s \in SpecSessions, k \in SwitchIds : BroadcastSend(s, k)
    \/ \E s \in SpecSessions, ok \in {TRUE} :
           \E order \in IterOrders(DOMAIN vrf_table) : BroadcastDone(s, ok, order)
    \/ \E a \in Addrs, id \in RemoteIds : ClientConnect(a, id)
    \/ \E a \in Addrs : ClientRegister(a)
    \/ \E a \in Addrs : ClientDrain(a)
    \/ \E a \in Addrs : ClientTimeout(a)
    \/ \E a \in Addrs : Heartbeat(a)
    \/ \E a \in FlakyAddrs : PeerDown(a)
    \/ \E a \in FlakyAddrs : PeerUp(a)

Spec == Init /\ [][Next]_vars


\* ------------------------------------------- control-plane specification
\* Sequences of VrfAction packets handled by one inbound peer session,
\* started from an empty or a saved cache.
\* Member lists of the commands: the local and the remote switches, with
\* repetitions.
MemberLists == SeqsUpTo(1..MaxSwitchId, MaxMembers)

CtlActions ==
    {ActCreate(Vrf(id, name, ms)) : id \in VrfIds, name \in Names, ms \in MemberLists}
        \cup {ActDelete(id) : id \in VrfIds}
        \cup {ActAddMember(id, ms) : id \in VrfIds, ms \in MemberLists}
        \cup {ActRemoveMember(id, ms) : id \in VrfIds, ms \in MemberLists}

CtlInit ==
    /\ \E cache \in Caches, ok \in BOOLEAN : InitTables(Boot(cache, ok))
    /\ sess = [s \in Sessions |-> IF s = "s1" THEN IdleSession(2) ELSE ClosedSession]
    /\ InitConn
    /\ InitAux

CtlNext ==
    \E a \in CtlActions, ok \in BOOLEAN : RecvVrfAction("s1", a, ok, <<>>)

CtlSpec == CtlInit /\ [][CtlNext]_vars

\* ----------------------------------------------------- List specification
\* The operator session creates VRFs one after the other and lists them.
ListVrf(k) == Vrf(k, k, IF k % 2 = 0 THEN <<LocalId, 2>> ELSE <<2>>)

ListInit ==
    /\ InitTables(Boot(EmptyCache, TRUE))
    /\ sess = [s \in Sessions |-> IF s = "s1" THEN IdleSession(CONFIGURATION_SWITCH_ID)
                                  ELSE ClosedSession]
    /\ InitConn
    /\ InitAux

ListNext ==
    \/ /\ Cardinality(DOMAIN vrf_table) < MaxListVrfs
       /\ RecvVrfAction("s1", ActCreate(ListVrf(Cardinality(DOMAIN vrf_table) + 1)), TRUE, <<>>)
    \/ BroadcastDone("s1", TRUE, <<>>)
    \/ \E order \in IterOrders(DOMAIN vrf_table) : RecvVrfAction("s1", ActList, TRUE, order)

ListSpec == ListInit /\ [][ListNext]_vars


\* ---------------------------------------------- fair connection-layer runs
\* One configured peer and the operator session, with the steps every
\* spawned task takes when the scheduler runs it.
FairSessions == {"s1"}
FairAddrs == {"a1"}
FairActions == {ActCreate(Vrf(1, 1, <<LocalId, 2>>)), ActDelete(1)}

FairInit ==
    /\ InitTables(Boot(EmptyCache, TRUE))
    /\ sess = [s \in Sessions |-> ClosedSession]
    /\ InitConn
    /\ InitAux

FairNext ==
    \/ \E s \in FairSessions : Accept(s, CONFIGURATION_SWITCH_ID)
    \/ \E s \in FairSessions : SessionClose(s)
    \/ \E s \in FairSessions, a \in FairActions : RecvVrfAction(s, a, TRUE, <<>>)
    \/ \E s \in FairSessions, k \in SwitchIds : BroadcastSend(s, k)
    \/ \E s \in FairSessions : BroadcastDone(s, TRUE, <<>>)
    \/ \E a \in FairAddrs : ClientConnect(a, 2)
    \/ \E a \in FairAddrs : ClientRegister(a)
    \/ \E a \in FairAddrs : ClientDrain(a)
    \/ \E a \in FairAddrs : ClientTimeout(a)
    \/ \E a \in FairAddrs : Heartbeat(a)
    \/ \E a \in FairAddrs : PeerDown(a)
    \/ \E a \in FairAddrs : PeerUp(a)

\* Every task that can run does run: the client task, the heartbeat task and
\* the session task in broadcast_packet. What the remote sides and the
\* operator do is not forced.
Fairness ==
    /\ \A a \in FairAddrs :
          /\ WF_vars(ClientConnect(a, 2))
          /\ WF_vars(ClientRegister(a))
          /\ WF_vars(ClientDrain(a))
          /\ WF_vars(ClientTimeout(a))
          /\ WF_vars(Heartbeat(a))
    /\ \A s \in FairSessions :
          /\ WF_vars(\E k \in SwitchIds : BroadcastSend(s, k))
          /\ WF_vars(BroadcastDone(s, TRUE, <<>>))

FairSpec == FairInit /\ [][FairNext]_vars /\ Fairness

\* --------------------------------------------- session-life specification
\* One inbound connection and two configured servers, with every outcome of
\* the handshake and of a read on an open session.
NoneCauses == {"eof", "decode"}
LifeActions == {ActCreate(Vrf(1, 1, <<LocalId, 2>>))}

LifeInit ==
    /\ \E cache \in Caches : InitTables(Boot(cache, TRUE))
    /\ sess = [s \in Sessions |-> ClosedSession]
    /\ InitConn
    /\ InitAux

LifeNext ==
    \/ \E s \in SpecSessions : TcpAccept(s)
    \/ \E s \in SpecSessions, id \in RemoteIds : HandshakeOk(s, id)
    \/ \E s \in SpecSessions : HandshakeFail(s)
    \/ \E s \in SpecSessions, why \in NoneCauses : RecvNone(s, why)
    \/ \E s \in SpecSessions : SessionExpire(s)
    \/ \E s \in SpecSessions : SessionClose(s)
    \/ \E s \in SpecSessions, a \in LifeActions : RecvVrfAction(s, a, TRUE, <<>>)
    \/ \E s \in SpecSessions, k \in SwitchIds : BroadcastSend(s, k)
    \/ \E s \in SpecSessions : BroadcastDone(s, TRUE, <<>>)
    \/ \E a \in Addrs : TcpConnect(a)
    \/ \E a \in Addrs : ExchangeOk(a, 2)
    \/ \E a \in Addrs, why \in NoneCauses : ExchangeFail(a, why)
    \/ \E a \in Addrs : ClientRegister(a)
    \/ \E a \in Addrs : ClientDrain(a)
    \/ \E a \in Addrs, why \in NoneCauses : ClientRecvNone(a, why)
    \/ \E a \in Addrs : ClientTimeout(a)
    \/ \E a \in FlakyAddrs : Heartbeat(a)
    \/ \E a \in FlakyAddrs : PeerDown(a)
    \/ \E a \in FlakyAddrs : PeerUp(a)

LifeSpec == LifeInit /\ [][LifeNext]_vars

\* ------------------------------------------------- data-path specification
\* Two peers, each with an inbound session and a configured address; frames
\* arrive from the peers and from the local TAP while peer 2 sends commands
\* for VRF 1.
DataPeerId == [a \in Addrs |-> IF a = "a1" THEN 2 ELSE 3]
IngressFrames == {[dst |-> "m1", src |-> "m2", len |-> MinFrameLen]}
ShortFrame == [dst |-> "m2", src |-> "m1", len |-> MinFrameLen - 1]
EgressFrames == {[dst |-> "m2", src |-> "m1", len |-> MinFrameLen], ShortFrame}
DataActions ==
    {ActCreate(Vrf(1, 1, <<LocalId, 2>>)), ActDelete(1),
     ActAddMember(1, <<3>>), ActRemoveMember(1, <<3>>)}

\* Worker tasks alive at once (running ones and those still emptying their queue).
MaxWorkers == 2

DataInit ==
    /\ \E cache \in Caches : InitTables(Boot(cache, TRUE))
    /\ sess = [s \in Sessions |-> IdleSession(IF s = "s1" THEN 2 ELSE 3)]
    /\ InitConn
    /\ InitAux

DataNext ==
    \/ \E a \in Addrs : ClientConnect(a, DataPeerId[a])
    \/ \E a \in Addrs : ClientRegister(a)
    \/ \E a \in Addrs : ClientDrain(a)
    \/ \E s \in Sessions, f \in IngressFrames : RecvData(s, 1, f)
    \/ \E s \in Sessions : DataSend(s)
    \/ \E w \in DOMAIN workers : WorkerIngress(w)
    \/ \E w \in DOMAIN workers, f \in EgressFrames : TapEgress(w, f)
    \/ \E a \in DataActions :
           /\ Cardinality(DOMAIN workers) < MaxWorkers
           /\ RecvVrfAction("s1", a, TRUE, <<>>)

DataSpec == DataInit /\ [][DataNext]_vars

\* ------------------------------------------------------ mesh specification
\* This node and the node behind a1: operator commands arrive here, are
\* rebroadcast and applied on both nodes; every spawned task runs when it can.
MeshInit ==
    /\ InitTables(Boot(EmptyCache, TRUE))
    /\ sess = [s \in Sessions |-> ClosedSession]
    /\ InitConn
    /\ InitAux

MeshNext ==
    \/ \E s \in FairSessions : Accept(s, CONFIGURATION_SWITCH_ID)
    \/ \E s \in FairSessions : SessionClose(s)
    \/ \E s \in FairSessions, a \in FairActions : RecvVrfAction(s, a, TRUE, <<>>)
    \/ \E s \in FairSessions, k \in SwitchIds : BroadcastSend(s, k)
    \/ \E s \in FairSessions : BroadcastDone(s, TRUE, <<>>)
    \/ \E a \in FairAddrs : ClientConnect(a, 2)
    \/ \E a \in FairAddrs : ClientRegister(a)
    \/ \E a \in FairAddrs : ClientDeliver(a)
    \/ \E a \in FairAddrs : ClientTimeout(a)
    \/ \E a \in FairAddrs : Heartbeat(a)
    \/ \E a \in FairAddrs : PeerDown(a)
    \/ \E a \in FairAddrs : PeerUp(a)

MeshFairness ==
    /\ \A a \in FairAddrs :
          /\ WF_vars(ClientConnect(a, 2))
          /\ WF_vars(ClientRegister(a))
          /\ WF_vars(ClientDeliver(a))
          /\ WF_vars(ClientTimeout(a))
          /\ WF_vars(Heartbeat(a))
    /\ \A s \in FairSessions :
          /\ WF_vars(\E k \in SwitchIds : BroadcastSend(s, k))
          /\ WF_vars(BroadcastDone(s, TRUE, <<>>))

MeshSpec == MeshInit /\ [][MeshNext]_vars /\ MeshFairness

\* ------------------------------------------------- lock-grain specification
\* The tasks that share the VRF table, the TAP table and the learning table,
\* one step for each lock().await, each channel operation and each file
\* write; the daemon can be killed and started again at any point.
\* Locks a task holds, as <<table, mode>>, by its position.
HeldBy(t) ==
    LET pc == lk[t].pc
        a == lk[t].act
    IN  CASE t = "ctl" /\ pc = "tap" -> {<<"vrf", "w">>}
          [] t = "ctl" /\ pc = "sw" -> {<<"vrf", "w">>, <<"tap", "w">>}
          [] t = "ctl" /\ pc = "apply" ->
                {<<"vrf", "w">>}
                    \cup (IF NeedsTapWrite(Tables, a) THEN {<<"tap", "w">>} ELSE {})
                    \cup (IF a.type = "Delete" THEN {<<"sw", "w">>} ELSE {})
          [] t = "data" /\ pc = "send" -> {<<"tap", "r">>}
          [] t = "flush" /\ pc = "vrf" -> {<<"sw", "r">>}
          [] t = "flush" /\ pc = "write" -> {<<"sw", "r">>, <<"vrf", "r">>}
          [] OTHER -> {}

\* The lock a task is suspended on, as a set of at most one <<table, mode>>.
Wants(t) ==
    LET pc == lk[t].pc
    IN  CASE t = "ctl" /\ pc = "vrf" -> {<<"vrf", "w">>}
          [] t = "ctl" /\ pc = "tap" -> {<<"tap", "w">>}
          [] t = "ctl" /\ pc = "sw" -> {<<"sw", "w">>}
          [] t = "data" /\ pc = "tap" -> {<<"tap", "r">>}
          [] t = "ingress" /\ pc = "sw" -> {<<"sw", "w">>}
          [] t = "flush" /\ pc = "sw" -> {<<"sw", "r">>}
          [] t = "flush" /\ pc = "vrf" -> {<<"vrf", "r">>}
          [] OTHER -> {}

\* Tasks whose hold on table l keeps request <<l, mode>> of t waiting.
Conflicting(t, req) ==
    {u \in LockTasks \ {t} :
        \E h \in HeldBy(u) : h[1] = req[1] /\ (req[2] = "w" \/ h[2] = "w")}

\* RwLock::read / RwLock::write return: nobody holds the table in a
\* conflicting mode, and a read does not overtake a write that waits.
Granted(t) ==
    \A req \in Wants(t) :
        /\ Conflicting(t, req) = {}
        /\ req[2] = "r" => ~\E u \in LockTasks \ {t} : <<req[1], "w">> \in Wants(u)

SetTask(t, rec) == lk' = [lk EXCEPT ![t] = rec]

\* server_connection reads a VrfAction of a peer (no rebroadcast):
\* process_vrf_action starts with vrf_table.write().await.
CtlRecv(a) ==
    /\ lk["ctl"].pc = "idle"
    /\ SetTask("ctl", [IdleTask EXCEPT !.pc = "vrf", !.act = a])
    /\ UNCHANGED <<tables, reply, sess, conn, disk, netns, taps, out>>

\* vrf_table.write() returns; tap_table.write().await comes next when the
\* action needs it.
CtlLockVrf ==
    /\ lk["ctl"].pc = "vrf"
    /\ Granted("ctl")
    /\ SetTask("ctl", [lk["ctl"] EXCEPT
            !.pc = IF NeedsTapWrite(Tables, lk["ctl"].act) THEN "tap" ELSE "apply"])
    /\ UNCHANGED <<tables, reply, sess, conn, disk, netns, taps, out>>

\* tap_table.write() returns; Delete goes on to switch_table.write().await.
CtlLockTap ==
    /\ lk["ctl"].pc = "tap"
    /\ Granted("ctl")
    /\ SetTask("ctl", [lk["ctl"] EXCEPT
            !.pc = IF lk["ctl"].act.type = "Delete" THEN "sw" ELSE "apply"])
    /\ UNCHANGED <<tables, reply, sess, conn, disk, netns, taps, out>>

\* switch_table.write() returns in Delete.
CtlLockSwitch ==
    /\ lk["ctl"].pc = "sw"
    /\ Granted("ctl")
    /\ SetTask("ctl", [lk["ctl"] EXCEPT !.pc = "apply"])
    /\ UNCHANGED <<tables, reply, sess, conn, disk, netns, taps, out>>

\* The arm of the match changes the tables and its guards are dropped.
CtlApply(ok) ==
    /\ lk["ctl"].pc = "apply"
    /\ SetTables(Apply(Tables, lk["ctl"].act, ok))
    /\ SetTask("ctl", IdleTask)
    /\ UNCHANGED <<reply, sess, conn, disk, netns, taps, out>>

\* server_connection reads Packet::Data from peer `id`: tap_table.read().await.
DataRecv(id, v, f) ==
    /\ lk["data"].pc = "idle"
    /\ SetTask("data", [IdleTask EXCEPT !.pc = "tap", !.item = DataPacket(v, f), !.from = id])
    /\ UNCHANGED <<tables, reply, sess, conn, disk, netns, taps, out>>

\* tap_table.read() returns.
DataLockTap ==
    /\ lk["data"].pc = "tap"
    /\ Granted("data")
    /\ SetTask("data", [lk["data"] EXCEPT !.pc = "send"])
    /\ UNCHANGED <<tables, reply, sess, conn, disk, netns, taps, out>>

\* Whether tap.send of the Data session has to wait: the entry's channel is
\* open and full.
DataSendWaits ==
    LET v == lk["data"].item.vrf_id
    IN  /\ lk["data"].pc = "send"
        /\ v \in DOMAIN tap_table
        /\ tap_table[v] \in DOMAIN workers
        /\ workers[tap_table[v]].rx
        /\ Len(workers[tap_table[v]].q) >= QueueCapacity

\* tap_table.get(&data.vrf_id) and tap.send((client_switch_id, data)).await
\* under the read lock; the guard is dropped at the end of the arm.
DataPut ==
    /\ lk["data"].pc = "send"
    /\ ~DataSendWaits
    /\ LET v == lk["data"].item.vrf_id
       IN  workers' = IF v \in DOMAIN tap_table /\ tap_table[v] \in DOMAIN workers
                         /\ workers[tap_table[v]].rx
                      THEN [workers EXCEPT ![tap_table[v]].q =
                                Append(@, <<lk["data"].from, lk["data"].item.data>>)]
                      ELSE workers
    /\ SetTask("data", IdleTask)
    /\ UNCHANGED <<vrf_table, tap_table, switch_table, reply, sess, conn, disk, netns, taps, out>>

\* receiver.recv() of a worker yields a frame: get_source_mac (a panic on
\* fewer than 12 bytes, as in WorkerIngress), then switch_table.write().await.
IngressRecv(w) ==
    /\ lk["ingress"].pc = "idle"
    /\ w \in DOMAIN workers
    /\ workers[w].rx
    /\ workers[w].q # <<>>
    /\ IF Head(workers[w].q)[2].len < MinSourceLen
       THEN /\ workers' = [workers EXCEPT ![w].rx = FALSE, ![w].q = <<>>]
            /\ UNCHANGED lk
       ELSE /\ SetTask("ingress", [IdleTask EXCEPT
                    !.pc = "sw", !.w = w, !.from = Head(workers[w].q)[1],
                    !.item = DataPacket(workers[w].vrf.id, Head(workers[w].q)[2])])
            /\ workers' = [workers EXCEPT ![w].q = Tail(@)]
    /\ UNCHANGED <<vrf_table, tap_table, switch_table, reply, sess, conn, disk, netns, taps, out>>

\* switch_table.write() returns in the worker: the source MAC is learned,
\* the guard dropped and the frame written to the TAP; with its Sender gone
\* and its queue empty the worker ends at the next recv().
IngressLockSwitch ==
    /\ lk["ingress"].pc = "sw"
    /\ Granted("ingress")
    /\ LET w == lk["ingress"].w
           it == lk["ingress"].item
       IN  /\ switch_table' = Learn(switch_table, it.vrf_id, it.data.src, lk["ingress"].from)
           /\ workers' = IF w \in DOMAIN workers /\ workers[w].q = <<>> /\ ~workers[w].open
                         THEN Remove(workers, w)
                         ELSE workers
    /\ SetTask("ingress", IdleTask)
    /\ UNCHANGED <<vrf_table, tap_table, reply, sess, conn, disk, netns, taps, out>>

\* The loop of main after sleep(1 s): switch_table.read().await.
FlushWake ==
    /\ lk["flush"].pc = "idle"
    /\ SetTask("flush", [IdleTask EXCEPT !.pc = "sw"])
    /\ UNCHANGED <<tables, reply, sess, conn, disk, netns, taps, out>>

\* switch_table.read() returns: vrf_table.read().await.
FlushLockSwitch ==
    /\ lk["flush"].pc = "sw"
    /\ Granted("flush")
    /\ SetTask("flush", [lk["flush"] EXCEPT !.pc = "vrf"])
    /\ UNCHANGED <<tables, reply, sess, conn, disk, netns, taps, out>>

\* vrf_table.read() returns: both tables are cloned into a Cache and
\* Cache::save starts; write() truncates the file before it writes.
FlushLockVrf ==
    /\ lk["flush"].pc = "vrf"
    /\ Granted("flush")
    /\ SetTask("flush", [lk["flush"] EXCEPT
            !.pc = "write",
            !.cache = [vrf_table |-> vrf_table, switch_table |-> switch_table]])
    /\ disk' = CorruptFile
    /\ UNCHANGED <<tables, reply, sess, conn, netns, taps, out>>

\* write() completes, the guards are dropped and main sleeps again.
FlushSave ==
    /\ lk["flush"].pc = "write"
    /\ disk' = SavedFile(lk["flush"].cache)
    /\ SetTask("flush", IdleTask)
    /\ UNCHANGED <<tables, reply, sess, conn, netns, taps, out>>

\* Cache::load().await.unwrap_or_default()
Load(file) == IF file.file = "saved" THEN file.data ELSE EmptyCache

\* The daemon is killed and started again: main() builds the tables from the
\* cache file; no task of the former run is left.
Restart(ok) ==
    /\ SetTables(Boot(Load(disk), ok))
    /\ lk' = [t \in LockTasks |-> IdleTask]
    /\ UNCHANGED <<reply, sess, conn, disk, netns, taps, out>>

\* Commands of a peer session for VRF 1, and the frames a peer sends for it.
LockActions ==
    {ActCreate(Vrf(1, 1, <<LocalId, 2>>)), ActDelete(1),
     ActAddMember(1, <<3>>), ActRemoveMember(1, <<LocalId>>)}

\* The cache file a former run left: none, a cut-short one or a complete one.
LockInit ==
    /\ disk \in {MissingFile, CorruptFile, SavedFile(SavedCache)}
    /\ \E ok \in BOOLEAN : InitTables(Boot(Load(disk), ok))
    /\ sess = [s \in Sessions |-> ClosedSession]
    /\ InitConn
    /\ lk = [t \in LockTasks |-> IdleTask]
    /\ netns = MountedFor(workers)
    /\ taps = OpenTaps(workers)
    /\ out = NoOutcome

LockNext ==
    \/ \E a \in LockActions : Cardinality(DOMAIN workers) < MaxWorkers /\ CtlRecv(a)
    \/ CtlLockVrf
    \/ CtlLockTap
    \/ CtlLockSwitch
    \/ CtlApply(TRUE)
    \/ \E f \in IngressFrames : DataRecv(2, 1, f)
    \/ DataLockTap
    \/ DataPut
    \/ \E w \in DOMAIN workers : IngressRecv(w)
    \/ IngressLockSwitch
    \/ FlushWake
    \/ FlushLockSwitch
    \/ FlushLockVrf
    \/ FlushSave
    \/ \E ok \in BOOLEAN : Restart(ok)

LockSpec == LockInit /\ [][LockNext]_vars

\* -------------------------------------------------- namespace specification
\* Commands of a peer session with what tap() and the end of a worker do to
\* /run/netns and to the TAP handle: setup_tap with a failure at any of its
\* steps, and the teardown of a dropped worker one step at a time.
\* The steps of setup_tap that can fail: fork, the preparation of /run/netns,
\* the creation of the marker file, close, unshare, the open of
\* /proc/self/ns/net, the bind mount, setns, and AsyncTap::new / set_state.
FailPoints ==
    {"none", "fork", "dir", "open", "close", "unshare", "self", "bind", "setns", "tap"}

\* Workers in teardown at once (dropped and not yet gone).
MaxTeardowns == 1

\* unlink(&netns_path): a path that is a mount point is busy and stays.
Unlink(ns, name) ==
    IF name \in DOMAIN ns /\ ns[name] = "file" THEN Remove(ns, name) ELSE ns

\* Netns::create_child with its step `fail` failing: /run/netns afterwards.
CreateChild(ns, name, fail) ==
    CASE fail \in {"dir", "open"} -> ns
      [] fail \in {"close", "unshare", "bind"} -> Unlink(Insert(ns, name, "file"), name)
      [] fail = "self" -> Insert(ns, name, "file")
      [] fail = "setns" -> Unlink(Insert(ns, name, "mounted"), name)
      [] OTHER -> Insert(ns, name, "mounted")

\* Netns::create: nothing to do when the path exists; otherwise fork, the
\* child runs create_child and the parent returns Ok once waitpid returns,
\* whatever the child's exit status.
NetnsCreate(ns, name, fail) ==
    IF name \in DOMAIN ns THEN [ns |-> ns, ok |-> TRUE, existed |-> TRUE, fail |-> "none"]
    ELSE IF fail = "fork" THEN [ns |-> ns, ok |-> FALSE, existed |-> FALSE, fail |-> fail]
    ELSE [ns |-> CreateChild(ns, name, fail), ok |-> TRUE, existed |-> FALSE,
          fail |-> IF fail = "tap" THEN "none" ELSE fail]

\* Netns::delete: umount2 then unlink; umount2 fails on a path that is not a
\* mount point and the file stays.
NetnsDelete(ns, name) ==
    IF name \in DOMAIN ns /\ ns[name] = "mounted" THEN Remove(ns, name) ELSE ns

\* setup_tap: create, enter (which needs a mounted namespace), AsyncTap::new
\* and set_state, close of the handle.
SetupTap(ns, name, fail) ==
    LET c == NetnsCreate(ns, name, fail)
    IN  [ns |-> c.ns, create |-> c,
         ok |-> c.ok /\ name \in DOMAIN c.ns /\ c.ns[name] = "mounted" /\ fail # "tap"]

\* process_vrf_action of a peer session (no rebroadcast) with tap() in view:
\* the arm calls setup_tap for the name of the VRF when it inserts into the
\* TAP table, and the workers whose Sender it drops begin to stop.
NsVrfAction(a, fail) ==
    LET calls == a.type \in {"Create", "AddMember"} /\ NeedsTapWrite(Tables, a)
        name == IF a.type = "Create" THEN a.name ELSE vrf_table[a.id].name
        st == IF calls THEN SetupTap(netns, name, fail)
              ELSE [ns |-> netns, create |-> NetnsCreate(netns, 0, "none"), ok |-> TRUE]
        T == Apply(Tables, a, st.ok)
        stay == {d \in taps : d.stage # "open" \/ d.w \in DOMAIN T.workers}
        stop == {[d EXCEPT !.stage = "stopping"] :
                    d \in {e \in taps : e.stage = "open" /\ e.w \notin DOMAIN T.workers}}
        new == {[w |-> w, name |-> T.workers[w].vrf.name, stage |-> "open"] :
                    w \in DOMAIN T.workers \ DOMAIN workers}
    IN  /\ calls \/ fail = "none"
        /\ stop # {} => Cardinality({d \in taps : d.stage # "open"}) < MaxTeardowns
        /\ SetTables(T)
        /\ netns' = st.ns
        /\ taps' = stay \cup stop \cup new
        /\ out' = IF calls
                  THEN [tick |-> 1 - out.tick, name |-> name, fail |-> st.create.fail,
                        existed |-> st.create.existed, ok |-> st.create.ok]
                  ELSE out
    /\ UNCHANGED <<reply, sess, conn, disk, lk>>

\* The ingress loop has ended and receiver_task.abort() has taken effect:
\* both tasks are gone and with them the last Arc<Tap>.
TapStopped(d) ==
    /\ d \in taps
    /\ d.stage = "stopping"
    /\ taps' = (taps \ {d}) \cup {[d EXCEPT !.stage = "stopped"]}
    /\ UNCHANGED <<tables, reply, sess, conn, disk, lk, netns, out>>

\* Drop for Tap runs: self.1.delete().
TapDelete(d) ==
    /\ d \in taps
    /\ d.stage = "stopped"
    /\ netns' = NetnsDelete(netns, d.name)
    /\ taps' = (taps \ {d}) \cup {[d EXCEPT !.stage = "deleted"]}
    /\ UNCHANGED <<tables, reply, sess, conn, disk, lk, out>>

\* After Drop::drop the fields are dropped: the AsyncTap closes its handle.
TapClose(d) ==
    /\ d \in taps
    /\ d.stage = "deleted"
    /\ taps' = taps \ {d}
    /\ UNCHANGED <<tables, reply, sess, conn, disk, lk, netns, out>>

\* Commands that give VRF 1 and VRF 2 a TAP worker and take it away; the
\* two VRFs have the same name, so at most one of them is in the table.
NsActions ==
    {ActCreate(Vrf(1, 1, <<LocalId, 2>>)), ActCreate(Vrf(2, 1, <<LocalId>>)),
     ActDelete(1), ActDelete(2),
     ActAddMember(1, <<LocalId>>), ActRemoveMember(1, <<LocalId>>)}

NsInit ==
    /\ \E cache \in Caches : InitTables(Boot(cache, TRUE))
    /\ sess = [s \in Sessions |-> ClosedSession]
    /\ InitConn
    /\ InitAux

NsNext ==
    \/ \E a \in NsActions, fail \in FailPoints : NsVrfAction(a, fail)
    \/ \E d \in taps : TapStopped(d)
    \/ \E d \in taps : TapDelete(d)
    \/ \E d \in taps : TapClose(d)

NsSpec == NsInit /\ [][NsNext]_vars

\* ------------------------------------------------------------------ claims
Last(q) == q[Len(q)]

RECURSIVE Flatten(_)
Flatten(chunks) ==
    IF chunks = <<>> THEN <<>> ELSE Head(chunks) \o Flatten(Tail(chunks))

\* C1: after any sequence of Create, Delete, AddMember, RemoveMember the TAP
\* table has an entry for a VRF id exactly when the VRF table holds that VRF
\* and the local switch id is one of its members.
C1_TapIffLocalMember ==
    \A v \in VrfIds :
        v \in DOMAIN tap_table
            <=> (v \in DOMAIN vrf_table /\ Contains(vrf_table[v].members, LocalId))

\* A VRF the local node has left (or never joined) next to one it is in.
C1_Witness ==
    \E v, u \in VrfIds :
        /\ v \in DOMAIN tap_table
        /\ u \in DOMAIN vrf_table
        /\ u \notin DOMAIN tap_table
        /\ vrf_table[u].members # <<>>

\* C2: the peer registry holds an entry for switch id s exactly when an
\* outbound session to s is established (identity exchanged, multiplex loop
\* running); leaving the loop removes the entry.
C2_RegistryIffEstablished ==
    \A id \in SwitchIds :
        id \in DOMAIN client_table
            <=> \E a \in Addrs : cl[a].pc = "mux" /\ cl[a].peer = id

\* C3: when the remote side of an established session stops answering the
\* client task ends the session, and once a later handshake is complete it
\* registers the peer and runs its multiplex loop again, whatever the tasks
\* that enqueue under the registry read lock do.
C3_SessionReestablished ==
    \A a \in FairAddrs :
        /\ (cl[a].pc = "mux" /\ ~up[a]) ~> (cl[a].pc # "mux" \/ up[a])
        /\ (cl[a].pc = "register") ~> (cl[a].pc = "mux")

\* C4: a mutating VrfAction of an operator session (handshake id 0) is
\* enqueued on the queue of every registry entry before the session changes
\* any table: the broadcast starts with all entries to visit and no table
\* changed, each entry leaves the set by an enqueue of the action on its
\* queue, and the match runs only when no entry is left.
C4_BroadcastBeforeApply ==
    [][/\ \A s \in Sessions :
          /\ (sess[s].pc = "idle" /\ sess'[s].pc = "bcast") =>
                /\ tables' = tables
                /\ sess'[s].todo = DOMAIN client_table
          /\ (sess[s].pc = "bcast" /\ sess'[s].todo # sess[s].todo) =>
                /\ tables' = tables
                /\ \E k \in sess[s].todo :
                      /\ sess'[s].todo = sess[s].todo \ {k}
                      /\ queue'[client_table[k]]
                            = Append(queue[client_table[k]], VrfActionPacket(sess[s].act))
          /\ (sess[s].pc = "bcast" /\ sess'[s].pc # "bcast") => sess[s].todo = {}
       /\ (\A s \in Sessions : sess[s].pc = "closed"
                \/ (sess[s].pc = "idle" /\ sess[s].hs = CONFIGURATION_SWITCH_ID))
             => (vrf_table' = vrf_table /\ tap_table' = tap_table)]_vars

\* The operator's action sits on the queues of two registered peers and the
\* tables are still those from before the command.
C4_Witness ==
    \E s \in Sessions :
        /\ sess[s].pc = "bcast"
        /\ sess[s].hs = CONFIGURATION_SWITCH_ID
        /\ sess[s].todo = {}
        /\ sess[s].act.type = "Delete"
        /\ 1 \in DOMAIN vrf_table
        /\ Range(client_table) = Addrs
        /\ \A a \in Addrs : VrfActionPacket(sess[s].act) \in Range(queue[a])

\* C5: a VrfAction is rebroadcast only for a session whose handshake id is
\* CONFIGURATION_SWITCH_ID and only when it is Create, Delete, AddMember or
\* RemoveMember; a List is never put on a peer queue, the step that applies
\* an action to the tables forwards nothing, and one command is enqueued at
\* most once for each peer (so the peer applies it at most once).
C5_RebroadcastOnlyForOperator ==
    [][/\ \A s \in Sessions :
             (sess[s].pc # "bcast" /\ sess'[s].pc = "bcast") =>
                 /\ sess[s].hs = CONFIGURATION_SWITCH_ID
                 /\ IsMutating(sess'[s].act)
       /\ \A a \in Addrs :
             (Len(queue'[a]) > Len(queue[a]) /\ Last(queue'[a]).kind = "VrfAction") =>
                 \E s \in Sessions :
                     /\ sess[s].pc = "bcast"
                     /\ sess[s].hs = CONFIGURATION_SWITCH_ID
                     /\ IsMutating(sess[s].act)
                     /\ Last(queue'[a]) = VrfActionPacket(sess[s].act)
                     /\ \A k \in DOMAIN client_table \ sess[s].todo :
                            client_table[k] # a
       /\ (tables' # tables \/ reply' # reply) => queue' = queue]_vars

\* C6: applying the same Create, Delete, AddMember or RemoveMember twice in a
\* row yields the same VRF table, TAP-table keys and running workers as
\* applying it once.
C6_TwiceSameAsOnce ==
    \A a \in CtlActions, ok \in BOOLEAN :
        LET once == Apply(Tables, a, ok)
            twice == Apply(once, a, ok)
        IN  /\ twice.vrf = once.vrf
            /\ DOMAIN twice.tap = DOMAIN once.tap
            /\ twice.tap = once.tap
            /\ twice.workers = once.workers

\* C7: no two VRFs of the table share a name, every key maps to the VRF of
\* that id, and a Create whose id is present or whose name is taken changes
\* no table.
C7_UniqueNamesAndIgnoredCreate ==
    /\ \A v \in DOMAIN vrf_table :
          /\ vrf_table[v].id = v
          /\ \A u \in DOMAIN vrf_table : u # v => vrf_table[u].name # vrf_table[v].name
    /\ \A id \in VrfIds, name \in Names, ms \in MemberLists, ok \in BOOLEAN :
          (id \in DOMAIN vrf_table \/ \E u \in DOMAIN vrf_table : vrf_table[u].name = name)
              => Apply(Tables, ActCreate(Vrf(id, name, ms)), ok) = Tables

\* Two VRFs, a TAP worker and learned addresses: every further Create is a
\* conflict.
C7_Witness ==
    /\ DOMAIN vrf_table = VrfIds
    /\ tap_table # EmptyMap
    /\ switch_table # EmptyMap

\* C8: in every VRF of the table each switch id appears at most once in the
\* member list.
C8_MembersDistinct ==
    \A v \in DOMAIN vrf_table :
        \A i, j \in 1..Len(vrf_table[v].members) :
            i # j => vrf_table[v].members[i] # vrf_table[v].members[j]

\* C9: switch id 0 is in no member list and is no key of the peer registry.
C9_NoReservedId ==
    /\ \A v \in DOMAIN vrf_table : ~Contains(vrf_table[v].members, CONFIGURATION_SWITCH_ID)
    /\ CONFIGURATION_SWITCH_ID \notin DOMAIN client_table

\* C10: the reply to List is ceil(n/10) chunks of 1 to 10 VRFs that together
\* hold every VRF of the table exactly once, then one empty chunk, and the
\* request changes no table.
C10_ListReply ==
    [][reply' # reply =>
          LET n == Cardinality(DOMAIN vrf_table)
              r == reply'
              all == Flatten(r)
          IN  /\ tables' = tables
              /\ Len(r) = ((n + ChunkSize - 1) \div ChunkSize) + 1
              /\ Last(r) = <<>>
              /\ \A i \in 1..(Len(r) - 1) : Len(r[i]) >= 1 /\ Len(r[i]) <= ChunkSize
              /\ Len(all) = n
              /\ {all[i] : i \in 1..Len(all)} = Range(vrf_table)]_vars

\* 23 VRFs listed as chunks of 10, 10 and 3 and the terminator.
C10_Witness ==
    /\ Cardinality(DOMAIN vrf_table) = 23
    /\ Len(reply) = 4
    /\ Len(reply[1]) = 10
    /\ Len(reply[2]) = 10
    /\ Len(reply[3]) = 3
    /\ reply[4] = <<>>

\* Whether the learning table binds the destination of f in the VRF of a
\* worker to a switch id that is in the peer registry.
BoundToRegistered(vrf, f) ==
    /\ vrf.id \in DOMAIN switch_table
    /\ f.dst \in DOMAIN switch_table[vrf.id]
    /\ switch_table[vrf.id][f.dst] \in DOMAIN client_table

\* C11: once a worker has processed a Data from peer S with source MAC M the
\* learning table binds (V, M) to S, overwriting an older binding; a frame of
\* at least 14 bytes read from V's TAP whose destination is bound to a
\* registered peer S is sent to the queue of S once and to no other queue,
\* and every step that enqueues such a frame changes that queue only.
C11_LearnedUnicast ==
    /\ [](\A w \in DOMAIN workers, f \in EgressFrames :
             (f.len >= MinFrameLen /\ BoundToRegistered(workers[w].vrf, f)) =>
                 EgressSends(workers[w].vrf, f)
                     = <<client_table[switch_table[workers[w].vrf.id][f.dst]]>>)
    /\ [][/\ \A w \in DOMAIN workers :
                (/\ workers[w].q # <<>>
                 /\ (w \notin DOMAIN workers' \/ workers'[w].q = Tail(workers[w].q))) =>
                    LET origin == Head(workers[w].q)[1]
                        mac == Head(workers[w].q)[2].src
                        id == workers[w].vrf.id
                    IN  /\ id \in DOMAIN switch_table'
                        /\ mac \in DOMAIN switch_table'[id]
                        /\ switch_table'[id][mac] = origin
          /\ \A a \in Addrs :
                (/\ Len(queue'[a]) > Len(queue[a])
                 /\ Last(queue'[a]).kind = "Data"
                 /\ BoundToRegistered([id |-> Last(queue'[a]).vrf_id], Last(queue'[a]).data)) =>
                    LET p == Last(queue'[a])
                    IN  /\ a = client_table[switch_table[p.vrf_id][p.data.dst]]
                        /\ queue'[a] = Append(queue[a], p)
                        /\ \A b \in Addrs \ {a} : queue'[b] = queue[b]]_vars

\* The binding of m2 in VRF 1 is peer 3 (it was peer 2 in the saved cache or
\* is learned from a Data of peer 3), both peers are registered, and the
\* frame for m2 is on the queue of peer 3 only.
C11_Witness ==
    /\ 1 \in DOMAIN tap_table
    /\ 1 \in DOMAIN switch_table
    /\ "m2" \in DOMAIN switch_table[1]
    /\ switch_table[1]["m2"] = 3
    /\ DOMAIN client_table = {2, 3}
    /\ queue[client_table[3]] # <<>>
    /\ queue[client_table[2]] = <<>>

\* C12: a frame of at least 14 bytes read from the TAP of V goes to the queue
\* of s only when (V, destination) is bound to a registered s, and in every
\* other case (a bound s that is not registered included) to the queue of
\* every registered peer whose id is in V's members; a shorter frame goes to
\* no queue.
C12_EgressTargets ==
    \A w \in DOMAIN workers, f \in EgressFrames :
        LET vrf == workers[w].vrf
        IN  vrf.id \in DOMAIN vrf_table =>
                Range(EgressSends(vrf, f))
                    = IF f.len < MinFrameLen THEN {}
                      ELSE IF BoundToRegistered(vrf, f)
                           THEN {client_table[switch_table[vrf.id][f.dst]]}
                           ELSE Range(FloodSends(vrf_table[vrf.id].members))

\* C13: a flooded frame of a VRF with a running worker goes to the queue of
\* every registered peer whose id is in the member list the VRF table holds
\* when the frame is forwarded.
C13_FloodFollowsTable ==
    \A v \in DOMAIN tap_table, f \in EgressFrames :
        (/\ tap_table[v] \in DOMAIN workers
         /\ v \in DOMAIN vrf_table
         /\ f.len >= MinFrameLen
         /\ ~(v \in DOMAIN switch_table /\ f.dst \in DOMAIN switch_table[v])) =>
            \A i \in 1..Len(vrf_table[v].members) :
                vrf_table[v].members[i] \in DOMAIN client_table =>
                    client_table[vrf_table[v].members[i]]
                        \in Range(EgressSends(workers[tap_table[v]].vrf, f))

\* C16: a VRF id that is not in the VRF table (deleted and not created
\* again) has no entry in the TAP table and none in the learning table.
C16_NoEntryAfterDelete ==
    \A v \in VrfIds :
        v \notin DOMAIN vrf_table =>
            (v \notin DOMAIN tap_table /\ v \notin DOMAIN switch_table)

\* C14: no task waits for space in a queue: no session task is suspended in
\* tap.send with the TAP table read lock, and no session task is suspended in
\* broadcast_packet with the registry read lock because the queues it still
\* has to send to are full.
C14_NoTaskWaits ==
    \A s \in Sessions :
        /\ sess[s].pc # "data"
        /\ ~(/\ sess[s].pc = "bcast"
             /\ sess[s].todo # {}
             /\ \A k \in sess[s].todo : Len(queue[client_table[k]]) >= QueueCapacity)

\* C20: when TAP setup fails, a Create that is not ignored and names the
\* local node, or an AddMember that adds the local node to a known VRF it
\* was not a member of, puts the VRF with the local member in the VRF table
\* and leaves the TAP table without an entry for it.
C20_NoTapEntryOnSetupFailure ==
    \A a \in CtlActions :
        (/\ Contains(a.members, LocalId)
         /\ \/ /\ a.type = "Create"
               /\ a.id \notin DOMAIN vrf_table
               /\ \A u \in DOMAIN vrf_table : vrf_table[u].name # a.name
            \/ /\ a.type = "AddMember"
               /\ a.id \in DOMAIN vrf_table
               /\ ~Contains(vrf_table[a.id].members, LocalId)) =>
            LET after == Apply(Tables, a, FALSE)
            IN  /\ a.id \in DOMAIN after.vrf
                /\ Contains(after.vrf[a.id].members, LocalId)
                /\ a.id \notin DOMAIN after.tap

\* C17: an inbound session on which recv_packet reported bytes that do not
\* decode is still in its receive loop, ready for the next packet.
C17_DecodeErrorKeepsSession ==
    \A s \in Sessions : sess[s].why = "decode" => sess[s].pc = "idle"

\* C18: an outbound session whose read returned zero bytes has left the
\* multiplex loop, and an inbound session whose read returned zero bytes
\* reads no further packet.
C18_SessionEndsOnEof ==
    /\ \A a \in Addrs : ~(cl[a].pc = "mux" /\ cl[a].eof)
    /\ \A s \in Sessions : sess[s].why = "eof" => sess[s].pc # "idle"

\* C19: a failed identity exchange, on an outbound connection or on an
\* accepted one, changes neither the peer registry nor the VRF, TAP and
\* learning tables, starts no heartbeat task, puts nothing on a queue and
\* leaves no session task behind.
C19_FailedExchangeNoEffect ==
    [][/\ \A a \in Addrs :
             (cl[a].pc = "exchange" /\ cl'[a].pc \notin {"exchange", "register"}) =>
                 /\ cl'[a].pc = "connect"
                 /\ client_table' = client_table
                 /\ tables' = tables
                 /\ hb' = hb
                 /\ queue' = queue
       /\ \A s \in Sessions :
             (sess[s].pc = "handshake" /\ sess'[s].pc \notin {"handshake", "idle"}) =>
                 /\ sess'[s] = ClosedSession
                 /\ client_table' = client_table
                 /\ tables' = tables
                 /\ hb' = hb
                 /\ queue' = queue]_vars

\* The exchange with the server of a1 failed on a closed stream: the task is
\* back at connect, a1 was never registered and has no heartbeat task, while
\* the other server is registered and VRF 1 is in the table.
C19_Witness ==
    /\ cl["a1"].pc = "connect"
    /\ cl["a1"].eof
    /\ hb["a1"] = 0
    /\ Range(client_table) = {"a2"}
    /\ 1 \in DOMAIN vrf_table
    /\ 1 \in DOMAIN tap_table

\* C15: if from some point on no operator session is open (no command is
\* issued any more), then from some point on the node behind every address
\* holds the VRF table this node holds.
C15_EventuallyConsistent ==
    (<>[](\A s \in Sessions : sess[s].pc = "closed"))
        => <>[](\A a \in FairAddrs : remote[a] = vrf_table)

\* What startup from cache file `file` leaves in tables vt (VRF), tt (TAP),
\* st (learning) and worker tasks ws, with a running worker behind every TAP
\* entry when has_worker.
StartedFrom(file, vt, tt, st, ws, has_worker) ==
    IF file.file = "saved"
    THEN /\ vt = file.data.vrf_table
         /\ st = file.data.switch_table
         /\ DOMAIN tt = {v \in DOMAIN file.data.vrf_table :
                            Contains(file.data.vrf_table[v].members, LocalId)}
         /\ has_worker =>
                \A v \in DOMAIN tt :
                    /\ tt[v] \in DOMAIN ws
                    /\ ws[tt[v]].vrf = file.data.vrf_table[v]
                    /\ ws[tt[v]].open
    ELSE vt = EmptyMap /\ tt = EmptyMap /\ st = EmptyMap /\ ws = EmptyMap

LockRank(l) == CASE l = "vrf" -> 1 [] l = "tap" -> 2 [] l = "sw" -> 3

\* Tasks that keep task t suspended: the holders of the lock it waits for,
\* and for a send on a full channel the worker that has to receive from it.
Blockers(t) ==
    UNION {Conflicting(t, req) : req \in Wants(t)}
        \cup (IF t = "data" /\ DataSendWaits /\ lk["ingress"].pc = "sw"
                  /\ lk["ingress"].w = tap_table[lk["data"].item.vrf_id]
               THEN {"ingress"} ELSE {})

\* C22: a task that holds one table lock and waits for another takes them in
\* the order VRF table, TAP table, learning table, and no set of tasks is
\* deadlocked (each one suspended on a lock or a queue that another one of
\* the set has to release).
C22_LockOrderNoDeadlock ==
    /\ \A t \in LockTasks :
          \A h \in HeldBy(t), r \in Wants(t) : LockRank(h[1]) < LockRank(r[1])
    /\ ~\E S \in (SUBSET LockTasks) \ {{}} : \A t \in S : Blockers(t) \cap S # {}

\* C23: at most one heartbeat task runs for each configured address, however
\* often the session to it has been established again.
C23_OneHeartbeatPerPeer ==
    \A a \in Addrs : hb[a] <= 1

\* C24: AddMember for a known VRF that already has a running TAP worker
\* leaves the TAP entry and the worker tasks as they are (with their queues),
\* creates a worker only when none runs, and AddMember for an unknown id
\* changes no table.
C24_AddMemberKeepsWorker ==
    \A id \in VrfIds, ms \in MemberLists, ok \in BOOLEAN :
        LET after == Apply(Tables, ActAddMember(id, ms), ok)
            running == id \in DOMAIN tap_table /\ tap_table[id] \in DOMAIN workers
        IN  /\ id \notin DOMAIN vrf_table => after = Tables
            /\ (id \in DOMAIN vrf_table /\ running) =>
                  /\ after.tap = tap_table
                  /\ after.workers = workers

\* C25: in the teardown of a TAP worker the namespace is unmounted and its
\* marker file unlinked only after both tasks have stopped and the TAP
\* handle has been closed: no Tap is in the state where its Netns::delete
\* has run while its handle is still open.
C25_HandleClosedBeforeUnmount ==
    \A d \in taps : d.stage # "deleted"

\* C26: a Netns::create whose child failed after it had created the marker
\* file (at close, unshare, the open of /proc/self/ns/net, the bind mount or
\* setns) leaves no file of that name under /run/netns, and a create for a
\* name that exists returns Ok and changes nothing under /run/netns.
C26_FailedCreateLeavesNoFile ==
    /\ []((~out.existed /\ out.fail \in {"close", "unshare", "self", "bind", "setns"})
              => out.name \notin DOMAIN netns)
    /\ [][(out'.tick # out.tick /\ out'.existed) => (out'.ok /\ netns' = netns)]_vars

\* C27: the namespace named after a VRF exists (mounted) whenever the TAP
\* table holds a running worker for that VRF.
C27_NamespaceOfRunningWorker ==
    \A v \in DOMAIN tap_table :
        tap_table[v] \in DOMAIN workers =>
            /\ workers[tap_table[v]].vrf.name \in DOMAIN netns
            /\ netns[workers[tap_table[v]].vrf.name] = "mounted"

\* ---------------------------------------------------------------------------
\* Peers sending Data of any length for VRF 1: next to a full Ethernet header
\* a payload shorter than the 12 bytes get_source_mac reads, while frames
\* leave through the TAP and peer 2 deletes and creates the VRF.
RuntFrame == [dst |-> "m1", src |-> "m2", len |-> MinSourceLen - 1]
PeerData == IngressFrames \cup {RuntFrame}
RuntActions == {ActCreate(Vrf(1, 1, <<LocalId, 2>>)), ActDelete(1)}

RuntInit ==
    /\ \E cache \in Caches : InitTables(Boot(cache, TRUE))
    /\ sess = [s \in Sessions |-> IdleSession(IF s = "s1" THEN 2 ELSE 3)]
    /\ InitConn
    /\ InitAux

RuntNext ==
    \/ \E s \in Sessions, f \in PeerData : RecvData(s, 1, f)
    \/ \E s \in Sessions : DataSend(s)
    \/ \E w \in DOMAIN workers : WorkerIngress(w)
    \/ \E w \in DOMAIN workers, f \in EgressFrames : TapEgress(w, f)
    \/ \E a \in RuntActions :
           /\ Cardinality(DOMAIN workers) < MaxWorkers
           /\ RecvVrfAction("s1", a, TRUE, <<>>)

RuntSpec == RuntInit /\ [][RuntNext]_vars

\* C28: whatever the length of the Data a peer sent, the TAP-table entry of a
\* VRF whose worker runs keeps a live receiver: the worker's receive loop has
\* not stopped and takes the next packet of its queue.
C28_ShortDataKeepsIngress ==
    \A v \in DOMAIN tap_table :
        tap_table[v] \in DOMAIN workers => workers[tap_table[v]].rx

\* ---------------------------------------------------------------------------
\* A node started from a cache in which VRF 1 has the members 1, 2 and 3 and
\* MAC m2 is bound to peer 3: peer 2 removes peer 3 from the VRF (and adds it
\* again) while peer 3 sends frames from m2 and frames for the learned MAC
\* and for an unknown one are read from the TAP.
MemberCache ==
    [vrf_table |-> [v \in {1} |-> Vrf(1, 1, <<LocalId, 2, 3>>)],
     switch_table |-> [v \in {1} |-> [m \in {"m2"} |-> 3]]]
MemberFrames ==
    {[dst |-> "m2", src |-> "m1", len |-> MinFrameLen],
     [dst |-> "m1", src |-> "m2", len |-> MinFrameLen]}
MemberActions == {ActRemoveMember(1, <<3>>), ActAddMember(1, <<3>>)}

MemberInit ==
    /\ InitTables(Boot(MemberCache, TRUE))
    /\ sess = [s \in Sessions |-> IdleSession(IF s = "s1" THEN 2 ELSE 3)]
    /\ InitConn
    /\ InitAux

MemberNext ==
    \/ \E a \in Addrs : ClientConnect(a, DataPeerId[a])
    \/ \E a \in Addrs : ClientRegister(a)
    \/ \E a \in Addrs : ClientDrain(a)
    \/ \E w \in DOMAIN workers, f \in MemberFrames : TapEgress(w, f)
    \/ \E f \in IngressFrames : RecvData("s2", 1, f)
    \/ DataSend("s2")
    \/ \E w \in DOMAIN workers : WorkerIngress(w)
    \/ \E a \in MemberActions : RecvVrfAction("s1", a, TRUE, <<>>)

MemberSpec == MemberInit /\ [][MemberNext]_vars

\* C29: once a peer is no member of a VRF any more, no step enqueues a Data
\* packet of that VRF on the queue the registry holds for that peer, be it
\* by flood or through a learning-table entry.
C29_NoFrameToRemovedMember ==
    [][\A v \in DOMAIN vrf_table, s \in DOMAIN client_table :
          (/\ ~Contains(vrf_table[v].members, s)
           /\ Len(queue'[client_table[s]]) > Len(queue[client_table[s]]))
          => LET p == Last(queue'[client_table[s]])
             IN  ~(p.kind = "Data" /\ p.vrf_id = v)]_vars

\* C30: a peer queue belongs to one session. The session that is being
\* established finds the queue of its address empty (nothing enqueued while
\* there was no session, nothing left by the one before: the loop of the
\* new session writes what the queue holds to its socket), and every
\* registry entry that leads to the queue of an established session is the
\* entry of the switch id reported in that session.
C30_QueueOfOneSession ==
    /\ [](\A a \in Addrs : cl[a].pc = "mux" =>
              \A id \in DOMAIN client_table : client_table[id] = a => id = cl[a].peer)
    /\ [][\A a \in Addrs :
              (cl[a].pc = "register" /\ cl'[a].pc = "mux") => queue[a] = <<>>]_vars

====
